---- MODULE Spec2Model ----
(***************************************************************************)
(* Model of Intake_Automation_Combine.py: a Streamlit form over two Google *)
(* sheets.  One session: login, app selection, filters, record navigation  *)
(* and commit.  Every user gesture triggers one run of the script; a       *)
(* handler that calls st.rerun() triggers a second run inside the same     *)
(* step.  Each run reloads the sheet, so a page rendered before a failed,  *)
(* partially applied commit is stale until the next run.                   *)
(*                                                                         *)
(* Text values are sequences of one-character strings, so that strip,      *)
(* lower, contains and strftime are modelled by what they compute.         *)
(* The module-level name `client` used by both apps is taken to be the     *)
(* authorised gspread client created in main().                            *)
(*                                                                         *)
(* Spec is one session with atomic sheet.update calls that may fail.       *)
(* SpecConc is two sessions on the Pending-Triage sheet whose committing   *)
(* runs load the sheet and then issue their sheet.update calls one at a    *)
(* time, interleaved with the other session's (peers, wlog).               *)
(***************************************************************************)
EXTENDS Integers, Sequences, FiniteSets, TLC

VARIABLES logged_in, user_email, user_role, app_choice,
          name_email_filter, status_filter, record_pos,
          sheet1, sheet2, page, out, commits, pos_set,
          peers, wlog

vars == <<logged_in, user_email, user_role, app_choice,
          name_email_filter, status_filter, record_pos,
          sheet1, sheet2, page, out, commits, pos_set,
          peers, wlog>>

\* Bound on the number of submit clicks in one behaviour.
MaxCommits == 1

----------------------------------------------------------------------------
\* Text helpers

UpperChars == <<"A","B","C","D","E","F","G","H","I","J","K","L","M",
                "N","O","P","Q","R","S","T","U","V","W","X","Y","Z">>

LowerChars == <<"a","b","c","d","e","f","g","h","i","j","k","l","m",
                "n","o","p","q","r","s","t","u","v","w","x","y","z">>

LowerTable ==
  [c \in {UpperChars[i] : i \in 1..26} |->
     LowerChars[CHOOSE i \in 1..26 : UpperChars[i] = c]]

LowerChar(c) == IF c \in DOMAIN LowerTable THEN LowerTable[c] ELSE c

\* str.lower()
Lower(s) == [i \in 1..Len(s) |-> LowerChar(s[i])]

\* str.strip(): drop leading and trailing blanks
Strip(s) ==
  LET nb == {i \in 1..Len(s) : s[i] # " "}
  IN IF nb = {} THEN <<>>
     ELSE LET lo == CHOOSE i \in nb : \A j \in nb : i <= j
              hi == CHOOSE i \in nb : \A j \in nb : j <= i
          IN SubSeq(s, lo, hi)

\* Series.str.contains(pat): a regular-expression search; the patterns of
\* the model are made of literal characters and "." (any one character).
StrContains(s, pat) ==
  \E i \in 0..(Len(s) - Len(pat)) :
     \A j \in 1..Len(pat) : pat[j] = "." \/ pat[j] = s[i + j]

DigitChars == <<"0","1","2","3","4","5","6","7","8","9">>

TwoDigits(n) == <<DigitChars[((n \div 10) % 10) + 1], DigitChars[(n % 10) + 1]>>

FourDigits(n) == TwoDigits(n \div 100) \o TwoDigits(n % 100)

\* Dates are <<year, month, day>>; NoDate is Python's None.
NoDate == <<>>

\* date.strftime("%Y-%m-%d")
StrfYmd(d) == FourDigits(d[1]) \o <<"-">> \o TwoDigits(d[2]) \o <<"-">> \o TwoDigits(d[3])

\* date.strftime("%m/%d/%y")
StrfMdy(d) == TwoDigits(d[2]) \o <<"/">> \o TwoDigits(d[3]) \o <<"/">> \o TwoDigits(d[1] % 100)

IsDigit(c) == \E i \in 1..10 : DigitChars[i] = c

DigitVal(c) == (CHOOSE i \in 1..10 : DigitChars[i] = c) - 1

Num(s) == IF Len(s) = 2 THEN 10 * DigitVal(s[1]) + DigitVal(s[2])
          ELSE 1000 * DigitVal(s[1]) + 100 * DigitVal(s[2]) + 10 * DigitVal(s[3]) + DigitVal(s[4])

AllDigits(s) == \A i \in 1..Len(s) : IsDigit(s[i])

\* safe_date(value): None for "", otherwise pd.to_datetime(value).date(),
\* None when the text is no date.  Two-digit years pivot as dateutil does.
safe_date(v) ==
  IF v = <<>> THEN NoDate
  ELSE IF Len(v) = 8 /\ v[3] = "/" /\ v[6] = "/"
          /\ AllDigits(SubSeq(v,1,2)) /\ AllDigits(SubSeq(v,4,5)) /\ AllDigits(SubSeq(v,7,8))
          /\ Num(SubSeq(v,1,2)) \in 1..12 /\ Num(SubSeq(v,4,5)) \in 1..31
       THEN <<(IF Num(SubSeq(v,7,8)) < 69 THEN 2000 ELSE 1900) + Num(SubSeq(v,7,8)),
              Num(SubSeq(v,1,2)), Num(SubSeq(v,4,5))>>
  ELSE IF Len(v) = 10 /\ v[5] = "-" /\ v[8] = "-"
          /\ AllDigits(SubSeq(v,1,4)) /\ AllDigits(SubSeq(v,6,7)) /\ AllDigits(SubSeq(v,9,10))
          /\ Num(SubSeq(v,6,7)) \in 1..12 /\ Num(SubSeq(v,9,10)) \in 1..31
       THEN <<Num(SubSeq(v,1,4)), Num(SubSeq(v,6,7)), Num(SubSeq(v,9,10))>>
  ELSE NoDate

----------------------------------------------------------------------------
\* Fixed texts of the program

sEmpty == <<>>

sY == <<"y">>

sN == <<"n">>

sMaybe == <<"m","a","y","b","e">>

sAll == <<"A","l","l">>

sJMPending == <<"J","M","-","P","e","n","d","i","n","g">>

sPBPending == <<"P","B","-","P","e","n","d","i","n","g">>

sHBPending == <<"H","B","-","P","e","n","d","i","n","g">>

sJMHold == <<"J","M","-","H","o","l","d">>

\* options of the status selectbox
StatusOptions == <<sAll, sJMPending, sPBPending, sHBPending, sJMHold>>

\* options of the "Update Accepted Status?" selectbox
AcceptedOptions == <<sEmpty, sY, sMaybe, sN>>

\* variant: Editor may also edit dataset 2
App2EditRoles_Editor == {"Admin", "Editor"}

\* roles checked by the two apps
App1Roles == {"FM", "Admin", "Editor"}

App1EditRoles == {"Editor", "Admin", "FM"}

App2Roles == {"HRS", "Admin", "Editor", "Viewer", "FM"}

App2EditRoles == {"Admin"}

\* the role values the session data model knows
KnownRoles == {"FM", "Admin", "Editor", "HRS", "Viewer", "Unknown"}

----------------------------------------------------------------------------
\* Environment: the permission sheet, the two data sheets, the user's inputs

\* rows of the permission sheet as stored (emails not yet normalised)
PermissionRows ==
  << [email |-> <<"F","@","x">>,      role |-> "FM"],
     [email |-> <<"a","@","x"," ">>,  role |-> "Admin"],
     [email |-> <<"e","@","x">>,      role |-> "Editor"],
     [email |-> <<"h","@","x">>,      role |-> "HRS"],
     [email |-> <<"v","@","x">>,      role |-> "Viewer"],
     [email |-> <<"g","@","x">>,      role |-> "Guest"],
     [email |-> <<"a","@","x">>,      role |-> "Viewer"] >>

\* what the user may type into the login field
EmailInputs ==
  { <<>>, <<" ">>, <<"f","@","x">>, <<" ","A","@","X">>, <<"e","@","x">>,
    <<"h","@","x">>, <<"v","@","x">>, <<"g","@","x">>, <<"z","@","x">>,
    <<"a","@">> }

\* what the user may type into the search field
QueryInputs == { <<>>, <<"B">>, <<"q">>, <<"o",".","x">> }

\* the options of the status selectbox the user picks among
StatusInputs == { sAll, sJMPending }

\* datetime.now(pacific) of a run
Today == <<2025, 3, 9>>

\* values the user may put into the draft
CommentInputs == { <<"o","k">> }

DateInputs == { NoDate, <<2024, 11, 5>> }

FinalStatusInputs == { <<>>, <<"o","k">> }

\* Pending-Triage sheet: row 1 is the header, data rows start at row 2
FirstDataRow1 == 2

\* OPT-SVC sheet: header=2, the header is row 3, data rows start at row 4
FirstDataRow2 == 4

Blank1 == [name |-> <<>>, email |-> <<>>, R |-> <<>>, S |-> <<>>,
           T |-> <<>>, U |-> <<>>, W |-> <<>>, X |-> <<>>]

InitSheet1 ==
  2 :> [Blank1 EXCEPT !.name = <<"B","o">>, !.email = <<"o","@","x">>, !.S = sJMPending]
  @@
  3 :> [Blank1 EXCEPT !.name = <<"A","l">>, !.email = <<"l","@","x">>, !.S = <<" ","Y">>,
                      !.T = <<"f","@","x">>, !.U = StrfYmd(<<2025, 1, 7>>)]
  @@
  4 :> [Blank1 EXCEPT !.name = <<"c","y">>, !.email = <<"B","@","x">>, !.S = <<"j","m","-","p","e","n","d","i","n","g">>,
                      !.R = <<"h","i">>]

Blank2 == [name |-> <<>>, email |-> <<>>, AI |-> <<>>, AJ |-> <<>>,
           AK |-> <<>>, AL |-> <<>>, AN |-> <<>>]

InitSheet2 ==
  4 :> [Blank2 EXCEPT !.name = <<"A","l">>, !.email = <<"l","@","x">>]
  @@
  5 :> [Blank2 EXCEPT !.name = <<"B","o">>, !.email = <<"o","@","x">>,
                      !.AJ = StrfMdy(<<2024, 11, 5>>), !.AN = <<"o","k">>]

----------------------------------------------------------------------------
\* Loading and filtering

\* load_permissions(): emails lower-cased and stripped
load_permissions ==
  [i \in 1..Len(PermissionRows) |->
     [PermissionRows[i] EXCEPT !.email = Strip(Lower(PermissionRows[i].email))]]

\* variant: the lookup accepts an email contained in a table email
PermMatch_Substring(email) ==
  SelectSeq(load_permissions, LAMBDA r : StrContains(Lower(r.email), email))

\* variant: the lookup returns the matching rows last row first
PermMatch_LastFirst(email) ==
  LET m == SelectSeq(load_permissions, LAMBDA r : Lower(r.email) = email)
  IN [i \in 1..Len(m) |-> m[Len(m) + 1 - i]]

\* permissions[permissions['email'].str.lower() == email]
PermMatch(email) ==
  SelectSeq(load_permissions, LAMBDA r : Lower(r.email) = email)

\* the data rows of a sheet in sheet order
DataRows(sheet, first) ==
  [i \in 1..Cardinality(DOMAIN sheet) |-> first + i - 1]

\* the 0-based offset added to df.index to form RowNumber
RowOffset1(i) == i + 2

RowOffset2(i) == i + 4

\* get_as_dataframe(sheet)...; df['RowNumber'] = df.index + 2
Load1(sheet) ==
  [i \in 1..Cardinality(DOMAIN sheet) |->
     [idx |-> i - 1, RowNumber |-> RowOffset1(i - 1), cells |-> sheet[FirstDataRow1 + i - 1]]]

\* get_as_dataframe(sheet, header=2)...; df['RowNumber'] = df.index + 4
Load2(sheet) ==
  [i \in 1..Cardinality(DOMAIN sheet) |->
     [idx |-> i - 1, RowNumber |-> RowOffset2(i - 1), cells |-> sheet[FirstDataRow2 + i - 1]]]

\* the text filter of both apps
TextMatch(r, q) ==
  StrContains(Lower(r.cells.email), q) \/ StrContains(Lower(r.cells.name), q)

\* the status filter of app 1
StatusMatch(r, sf) == Lower(r.cells.S) = Lower(sf)

\* variant: the view is re-indexed after filtering (reset_index(drop=True))
Filter1_ResetIndex(df, q, sf) ==
  LET f1 == IF q # <<>> THEN SelectSeq(df, LAMBDA r : TextMatch(r, q)) ELSE df
      f2 == IF sf # sAll THEN SelectSeq(f1, LAMBDA r : StatusMatch(r, sf)) ELSE f1
  IN [i \in 1..Len(f2) |-> [f2[i] EXCEPT !.idx = i - 1]]

Filter1(df, q, sf) ==
  LET f1 == IF q # <<>> THEN SelectSeq(df, LAMBDA r : TextMatch(r, q)) ELSE df
  IN IF sf # sAll THEN SelectSeq(f1, LAMBDA r : StatusMatch(r, sf)) ELSE f1

Filter2(df, q) ==
  IF q # <<>> THEN SelectSeq(df, LAMBDA r : TextMatch(r, q)) ELSE df

\* filtered_df.index
IndexOf(fdf) == [i \in 1..Len(fdf) |-> fdf[i].idx]

\* list(filtered_df.index).index(x), 0-based
ListIndex(fdf, x) == (CHOOSE i \in 1..Len(fdf) : fdf[i].idx = x) - 1

\* filtered_df.index[p] with Python's negative indexing
PyGet(fdf, p) == IF p >= 0 THEN fdf[p + 1] ELSE fdf[Len(fdf) + p + 1]

\* the option texts of the record selectbox (format_func)
OptionTexts(fdf) == [i \in 1..Len(fdf) |-> <<fdf[i].cells.name, fdf[i].cells.email>>]

----------------------------------------------------------------------------
\* Pages, gestures and cell writes

NoDraft == [app |-> 0]

\* a gesture of the user: the widget that changed and its value
NoEv == [type |-> "none", sel |-> 0, draft |-> NoDraft, failAt |-> 0]

\* what a run leaves on the screen when it stops before the record section
PlainPage(app, kind) ==
  [kind |-> kind, app |-> app, opts |-> <<>>, texts |-> <<>>, used |-> 0,
   row |-> 0, status |-> <<>>, canSubmit |-> FALSE, draft |-> NoDraft]

LoginPage == PlainPage(0, "login")

\* sheet.update(f"{col}{row}", [[val]])
CellWrite(ds, col, row, val) == [ds |-> ds, col |-> col, row |-> row, val |-> val]

RECURSIVE ApplyWrites(_, _)
ApplyWrites(sheet, ws) ==
  IF ws = <<>> THEN sheet
  ELSE ApplyWrites([sheet EXCEPT ![ws[1].row][ws[1].col] = ws[1].val], Tail(ws))

\* variant: the previous button is disabled only below position 0
PrevDisabled_Strict(pos) == pos < 0

\* the disabled flags of the two navigation buttons
PrevDisabled(pos) == pos <= 0

NextDisabled(pos, len) == pos >= len - 1

\* variant: a position beyond the view is clamped to the last record
ClampPos_Last(ps, pos, len) ==
  LET p0 == IF ps THEN pos ELSE 0
  IN IF p0 >= len THEN len - 1 ELSE p0

\* variant: every run starts at the first record of a view it has not shown
ClampPos_Reset(ps, pos, len) ==
  LET p0 == IF ps THEN pos ELSE 0
  IN IF p0 >= len - 1 THEN 0 ELSE p0

\* if record_pos not in session_state: 0;  if record_pos >= len: 0
ClampPos(ps, pos, len) ==
  LET p0 == IF ps THEN pos ELSE 0
  IN IF p0 >= len THEN 0 ELSE p0

\* accepted_default of the edit section
AcceptedDefault(current_status) ==
  IF current_status \in {sY, sMaybe, sN, sEmpty} THEN current_status ELSE sEmpty

\* the widget values of the app-1 edit section when nothing was typed
Default1(record) ==
  [app |-> 1,
   accepted |-> AcceptedDefault(Lower(Strip(record.cells.S))),
   comments |-> record.cells.R]

\* variant: the submit button is rendered whatever the loaded status is
CanSubmit1_RoleOnly(role, record) == role \in App1EditRoles

\* variant: the status is compared without strip()
CanSubmit1_NoStrip(role, record) ==
  /\ role \in App1EditRoles
  /\ Lower(record.cells.S) \notin {sY, sN}

\* the submit button of app 1 is rendered
CanSubmit1(role, record) ==
  /\ role \in App1EditRoles
  /\ Lower(Strip(record.cells.S)) \notin {sY, sN}

\* variant: the status cell is written whatever the draft status is
Writes1_AlwaysStatus(row_number, d, email, today) ==
  <<CellWrite(1, "R", row_number, d.comments),
    CellWrite(1, "S", row_number, d.accepted)>>
  \o (IF d.accepted = sY
      THEN <<CellWrite(1, "U", row_number, StrfYmd(today)),
             CellWrite(1, "T", row_number, email)>>
      ELSE IF d.accepted = sN
      THEN <<CellWrite(1, "W", row_number, StrfYmd(today)),
             CellWrite(1, "X", row_number, email)>>
      ELSE IF d.accepted = sMaybe
      THEN <<CellWrite(1, "T", row_number, email),
             CellWrite(1, "U", row_number, StrfYmd(today))>>
      ELSE <<>>)

\* variant: a rejection is stamped into the approval columns
Writes1_RejectIntoApproval(row_number, d, email, today) ==
  <<CellWrite(1, "R", row_number, d.comments)>>
  \o (IF Lower(d.accepted) \in {sY, sN, sMaybe}
      THEN <<CellWrite(1, "S", row_number, d.accepted)>> ELSE <<>>)
  \o (IF d.accepted \in {sY, sN, sMaybe}
      THEN <<CellWrite(1, "U", row_number, StrfYmd(today)),
             CellWrite(1, "T", row_number, email)>>
      ELSE <<>>)

\* the cell writes of the app-1 submit handler, in program order
Writes1(row_number, d, email, today) ==
  <<CellWrite(1, "R", row_number, d.comments)>>
  \o (IF Lower(d.accepted) \in {sY, sN, sMaybe}
      THEN <<CellWrite(1, "S", row_number, d.accepted)>> ELSE <<>>)
  \o (IF d.accepted = sY
      THEN <<CellWrite(1, "U", row_number, StrfYmd(today)),
             CellWrite(1, "T", row_number, email)>>
      ELSE IF d.accepted = sN
      THEN <<CellWrite(1, "W", row_number, StrfYmd(today)),
             CellWrite(1, "X", row_number, email)>>
      ELSE IF d.accepted = sMaybe
      THEN <<CellWrite(1, "T", row_number, email),
             CellWrite(1, "U", row_number, StrfYmd(today))>>
      ELSE <<>>)

\* the widget values of the app-2 edit section when nothing was typed
Default2(record) ==
  [app |-> 2,
   vcl_issued |-> safe_date(record.cells.AI),
   vcl_start |-> safe_date(record.cells.AJ),
   vcl_end |-> safe_date(record.cells.AK),
   vel_issued |-> safe_date(record.cells.AL),
   final_status |-> record.cells.AN]

\* variant: the status cell is written even when the draft is blank
Writes2_AlwaysStatus(row_number, d) ==
     (IF d.vcl_issued # NoDate THEN <<CellWrite(2, "AI", row_number, StrfMdy(d.vcl_issued))>> ELSE <<>>)
  \o (IF d.vcl_start # NoDate THEN <<CellWrite(2, "AJ", row_number, StrfMdy(d.vcl_start))>> ELSE <<>>)
  \o (IF d.vcl_end # NoDate THEN <<CellWrite(2, "AK", row_number, StrfMdy(d.vcl_end))>> ELSE <<>>)
  \o (IF d.vel_issued # NoDate THEN <<CellWrite(2, "AL", row_number, StrfMdy(d.vel_issued))>> ELSE <<>>)
  \o <<CellWrite(2, "AN", row_number, d.final_status)>>

\* variant: the status cell is written before the four dates
Writes2_StatusFirst(row_number, d) ==
     (IF d.final_status # <<>> THEN <<CellWrite(2, "AN", row_number, d.final_status)>> ELSE <<>>)
  \o (IF d.vcl_issued # NoDate THEN <<CellWrite(2, "AI", row_number, StrfMdy(d.vcl_issued))>> ELSE <<>>)
  \o (IF d.vcl_start # NoDate THEN <<CellWrite(2, "AJ", row_number, StrfMdy(d.vcl_start))>> ELSE <<>>)
  \o (IF d.vcl_end # NoDate THEN <<CellWrite(2, "AK", row_number, StrfMdy(d.vcl_end))>> ELSE <<>>)
  \o (IF d.vel_issued # NoDate THEN <<CellWrite(2, "AL", row_number, StrfMdy(d.vel_issued))>> ELSE <<>>)

\* the cell writes of the app-2 submit handler, in program order
Writes2(row_number, d) ==
     (IF d.vcl_issued # NoDate THEN <<CellWrite(2, "AI", row_number, StrfMdy(d.vcl_issued))>> ELSE <<>>)
  \o (IF d.vcl_start # NoDate THEN <<CellWrite(2, "AJ", row_number, StrfMdy(d.vcl_start))>> ELSE <<>>)
  \o (IF d.vcl_end # NoDate THEN <<CellWrite(2, "AK", row_number, StrfMdy(d.vcl_end))>> ELSE <<>>)
  \o (IF d.vel_issued # NoDate THEN <<CellWrite(2, "AL", row_number, StrfMdy(d.vel_issued))>> ELSE <<>>)
  \o (IF d.final_status # <<>> THEN <<CellWrite(2, "AN", row_number, d.final_status)>> ELSE <<>>)

----------------------------------------------------------------------------
\* One run of the script

\* variant: a run that stops before the record section resets the position
Halt_ResetPos(app, kind, ps, pos, sheet) ==
  [ps |-> TRUE, pos |-> 0, sheet |-> sheet, page |-> PlainPage(app, kind),
   writes |-> <<>>, failed |-> 0, msg |-> "", rerun |-> FALSE,
   rec |-> -1, vpos |-> -1, draft |-> NoDraft]

\* a run that stops before the record section (no access, or st.stop())
Halt(app, kind, ps, pos, sheet) ==
  [ps |-> ps, pos |-> pos, sheet |-> sheet, page |-> PlainPage(app, kind),
   writes |-> <<>>, failed |-> 0, msg |-> "", rerun |-> FALSE,
   rec |-> -1, vpos |-> -1, draft |-> NoDraft]

\* "Record Navigation": clamp the stored position, show the selectbox,
\* store the position of the chosen record (used: the position that indexed
\* filtered_df.index to find the default record).  The selectbox keeps the user's
\* choice only while its options are the ones that were on the screen.
Navigate(app, ps, pos, filtered_df, pg, ev) ==
  LET p1 == ClampPos(ps, pos, Len(filtered_df))
      default_record_index == PyGet(filtered_df, p1).idx
      sameWidget == /\ pg.kind = "record" /\ pg.app = app
                    /\ pg.texts = OptionTexts(filtered_df)
      record_index == IF ev.type = "select" /\ sameWidget
                      THEN filtered_df[ev.sel + 1].idx
                      ELSE default_record_index
      p2 == ListIndex(filtered_df, record_index)
  IN [used |-> p1, pos |-> p2, record |-> filtered_df[p2 + 1]]

\* variant: the row is taken from the position in the filtered view
RowNumberOf_ViewPos(nav) == nav.record.RowNumber - nav.record.idx + nav.pos

\* row_number = int(record["RowNumber"])
RowNumberOf(nav) == nav.record.RowNumber

\* variant: the write that raised is applied as well
FailedPrefix_Through(ws, k) == SubSeq(ws, 1, k)

\* the sheet.update calls that completed when the k-th one raises
FailedPrefix(ws, k) == SubSeq(ws, 1, k - 1)

\* variant: the next button saves the draft before it moves on
Buttons_SaveOnNext(app, nav, filtered_df, sheet, ev, canSubmit, d, ws) ==
  LET record == nav.record
      row_number == RowNumberOf(nav)
      base == [ps |-> TRUE, pos |-> nav.pos, sheet |-> sheet,
               page |-> [kind |-> "record", app |-> app,
                         opts |-> IndexOf(filtered_df),
                         texts |-> OptionTexts(filtered_df),
                         used |-> nav.used,
                         row |-> row_number,
                         status |-> IF app = 1 THEN record.cells.S ELSE <<>>,
                         canSubmit |-> canSubmit, draft |-> NoDraft],
               writes |-> <<>>, failed |-> 0, msg |-> "", rerun |-> FALSE,
               rec |-> -1, vpos |-> -1, draft |-> NoDraft]
  IN IF ev.type = "submit" /\ canSubmit
     THEN IF ev.failAt \in 1..Len(ws)
          THEN \* the failAt-th sheet.update raises: except branch, no rerun
               [base EXCEPT !.sheet = ApplyWrites(sheet, FailedPrefix(ws, ev.failAt)),
                            !.writes = FailedPrefix(ws, ev.failAt),
                            !.failed = ev.failAt,
                            !.msg = "failed",
                            !.rec = record.idx, !.vpos = nav.pos,
                            !.draft = d,
                            !.page = [base.page EXCEPT !.draft = d]]
          ELSE [base EXCEPT !.sheet = ApplyWrites(sheet, ws),
                            !.writes = ws,
                            !.msg = "saved",
                            !.rec = record.idx, !.vpos = nav.pos,
                            !.draft = d,
                            !.pos = nav.pos + 1,
                            !.rerun = TRUE]
     ELSE IF ev.type = "prev"
     THEN [base EXCEPT !.pos = nav.pos - 1, !.rerun = TRUE]
     ELSE IF ev.type = "next"
     THEN [base EXCEPT !.sheet = ApplyWrites(sheet, ws), !.writes = ws,
                       !.pos = nav.pos + 1, !.rerun = TRUE]
     ELSE base

\* the action buttons of a run: submit (when rendered), previous, next
Buttons(app, nav, filtered_df, sheet, ev, canSubmit, d, ws) ==
  LET record == nav.record
      row_number == RowNumberOf(nav)
      base == [ps |-> TRUE, pos |-> nav.pos, sheet |-> sheet,
               page |-> [kind |-> "record", app |-> app,
                         opts |-> IndexOf(filtered_df),
                         texts |-> OptionTexts(filtered_df),
                         used |-> nav.used,
                         row |-> row_number,
                         status |-> IF app = 1 THEN record.cells.S ELSE <<>>,
                         canSubmit |-> canSubmit, draft |-> NoDraft],
               writes |-> <<>>, failed |-> 0, msg |-> "", rerun |-> FALSE,
               rec |-> -1, vpos |-> -1, draft |-> NoDraft]
  IN IF ev.type = "submit" /\ canSubmit
     THEN IF ev.failAt \in 1..Len(ws)
          THEN \* the failAt-th sheet.update raises: except branch, no rerun
               [base EXCEPT !.sheet = ApplyWrites(sheet, FailedPrefix(ws, ev.failAt)),
                            !.writes = FailedPrefix(ws, ev.failAt),
                            !.failed = ev.failAt,
                            !.msg = "failed",
                            !.rec = record.idx, !.vpos = nav.pos,
                            !.draft = d,
                            !.page = [base.page EXCEPT !.draft = d]]
          ELSE [base EXCEPT !.sheet = ApplyWrites(sheet, ws),
                            !.writes = ws,
                            !.msg = "saved",
                            !.rec = record.idx, !.vpos = nav.pos,
                            !.draft = d,
                            !.pos = nav.pos + 1,
                            !.rerun = TRUE]
     ELSE IF ev.type = "prev"
     THEN [base EXCEPT !.pos = nav.pos - 1, !.rerun = TRUE]
     ELSE IF ev.type = "next"
     THEN [base EXCEPT !.pos = nav.pos + 1, !.rerun = TRUE]
     ELSE base

\* the draft widgets are keyed by row number: a gesture's draft counts only
\* when the run shows the same row as the screen did
DraftOf(app, pg, row_number, ev, default) ==
  IF pg.kind = "record" /\ pg.app = app /\ pg.row = row_number /\ ev.draft # NoDraft
  THEN ev.draft ELSE default

\* app 1 below the navigation: the edit section for the draft d, the buttons
Edit1(role, email, filtered_df, nav, sheet, ev, d) ==
  Buttons(1, nav, filtered_df, sheet, ev, CanSubmit1(role, nav.record), d,
          Writes1(RowNumberOf(nav), d, email, Today))

\* app 1 below the selectbox: the record details of the chosen record
Record1(role, email, filtered_df, nav, sheet, pg, ev) ==
  Edit1(role, email, filtered_df, nav, sheet, ev,
        DraftOf(1, pg, RowNumberOf(nav), ev, Default1(nav.record)))

\* app 1 below the filters: st.stop() on an empty view, else the navigation
View1(role, email, filtered_df, ps, pos, sheet, pg, ev) ==
  IF filtered_df = <<>> THEN Halt(1, "nomatch", ps, pos, sheet)
  ELSE Record1(role, email, filtered_df,
               Navigate(1, ps, pos, filtered_df, pg, ev), sheet, pg, ev)

show_pending_triage_app(role, email, q, sf, ps, pos, sheet, pg, ev) ==
  IF role \notin App1Roles THEN Halt(1, "noaccess", ps, pos, sheet)
  ELSE View1(role, email, Filter1(Load1(sheet), q, sf), ps, pos, sheet, pg, ev)

\* app 2 below the navigation: the edit section for the draft d, the buttons
Edit2(role, filtered_df, nav, sheet, ev, d) ==
  Buttons(2, nav, filtered_df, sheet, ev, role \in App2EditRoles, d,
          Writes2(RowNumberOf(nav), d))

\* app 2 below the selectbox: the record details of the chosen record
Record2(role, filtered_df, nav, sheet, pg, ev) ==
  Edit2(role, filtered_df, nav, sheet, ev,
        DraftOf(2, pg, RowNumberOf(nav), ev, Default2(nav.record)))

\* app 2 below the filter: st.stop() on an empty view, else the navigation
View2(role, filtered_df, ps, pos, sheet, pg, ev) ==
  IF filtered_df = <<>> THEN Halt(2, "nomatch", ps, pos, sheet)
  ELSE Record2(role, filtered_df,
               Navigate(2, ps, pos, filtered_df, pg, ev), sheet, pg, ev)

show_opt_svc_app(role, q, ps, pos, sheet, pg, ev) ==
  IF role \notin App2Roles THEN Halt(2, "noaccess", ps, pos, sheet)
  ELSE View2(role, Filter2(Load2(sheet), q), ps, pos, sheet, pg, ev)

\* the two sheets after a run r of app 1 / app 2
Ran1(r, s2) == [r |-> r, s1 |-> r.sheet, s2 |-> s2]

Ran2(r, s1) == [r |-> r, s1 |-> s1, s2 |-> r.sheet]

\* main() for a logged-in session: one run of the selected app
RunApp(app, role, email, q, sf, ps, pos, s1, s2, pg, ev) ==
  IF app = 1
  THEN Ran1(show_pending_triage_app(role, email, q, sf, ps, pos, s1, pg, ev), s2)
  ELSE Ran2(show_opt_svc_app(role, q, ps, pos, s2, pg, ev), s1)

\* what a gesture leaves: the messages and writes of its run a, the session
\* state and the screen of the last run b
Settle(a, b) ==
  [s1 |-> b.s1, s2 |-> b.s2, ps |-> b.r.ps, pos |-> b.r.pos, page |-> b.r.page,
   out |-> [msg |-> a.r.msg, writes |-> a.r.writes, failed |-> a.r.failed,
            rec |-> a.r.rec, vpos |-> a.r.vpos, draft |-> a.r.draft]]

\* st.rerun(): the run a is followed at once by a run with no gesture
Rerun(a, app, role, email, q, sf) ==
  IF a.r.rerun
  THEN Settle(a, RunApp(app, role, email, q, sf, a.r.ps, a.r.pos, a.s1, a.s2, a.r.page, NoEv))
  ELSE Settle(a, a)

\* a gesture: the run it triggers and, after st.rerun(), the run that follows
Cycle(app, role, email, q, sf, ps, pos, s1, s2, pg, ev) ==
  Rerun(RunApp(app, role, email, q, sf, ps, pos, s1, s2, pg, ev),
        app, role, email, q, sf)

NoOut == [msg |-> "", writes |-> <<>>, failed |-> 0, rec |-> -1, vpos |-> -1,
          draft |-> NoDraft]

----------------------------------------------------------------------------
\* Concurrent sessions on the Pending-Triage sheet

\* two browser sessions, each with its own script runs
Sessions == {"A", "B"}

\* the emails the two sessions logged in with
PeerEmail == [s \in Sessions |-> IF s = "A" THEN <<"f","@","x">> ELSE <<"e","@","x">>]

\* st.session_state.user_role of a session
PeerRole(s) == PermMatch(PeerEmail[s])[1].role

\* what the user of a session types into the comments box
PeerComment == [s \in Sessions |-> IF s = "A" THEN <<"a">> ELSE <<"b">>]

\* the drafts the user of a session may submit
PeerDrafts(s) ==
  [app : {1}, accepted : {AcceptedOptions[i] : i \in 1..Len(AcceptedOptions)},
   comments : {PeerComment[s]}]

\* a session that has not opened the app yet
IdlePeer == [pc |-> "idle", pos |-> 0, page |-> LoginPage, draft |-> NoDraft,
             plan |-> <<>>, queue |-> <<>>]

\* one run of app 1 in a session, on the sheet as it is when the run loads it
PeerRun(s, sheet, pos, pg, ev) ==
  show_pending_triage_app(PeerRole(s), PeerEmail[s], <<>>, sAll, TRUE, pos, sheet, pg, ev)

----------------------------------------------------------------------------
\* The session

Init ==
  /\ logged_in = FALSE
  /\ user_email = <<>>
  /\ user_role = ""
  /\ app_choice = 1
  /\ name_email_filter = <<>>
  /\ status_filter = sAll
  /\ pos_set = FALSE
  /\ record_pos = 0
  /\ sheet1 = InitSheet1
  /\ sheet2 = InitSheet2
  /\ page = LoginPage
  /\ out = NoOut
  /\ commits = 0
  /\ peers = [s \in Sessions |-> IdlePeer]
  /\ wlog = <<>>

\* the state after a gesture in a logged-in session
Apply(app, q, sf, ev) ==
  \E c \in {Cycle(app, user_role, user_email, q, sf, pos_set, record_pos,
                    sheet1, sheet2, page, ev)} :
     /\ app_choice' = app
     /\ name_email_filter' = q
     /\ status_filter' = sf
     /\ pos_set' = c.ps
     /\ record_pos' = c.pos
     /\ sheet1' = c.s1
     /\ sheet2' = c.s2
     /\ page' = c.page
     /\ out' = c.out
     /\ UNCHANGED <<logged_in, user_email, user_role, peers, wlog>>

\* login(): the email typed into the login form
Login(raw) ==
  /\ ~logged_in
  /\ LET email == Lower(Strip(raw))
         match == PermMatch(email)
     IN IF email = <<>>
        THEN /\ out' = NoOut
             /\ UNCHANGED <<logged_in, user_email, user_role, app_choice,
                            name_email_filter, status_filter, pos_set, record_pos,
                            sheet1, sheet2, page>>
        ELSE IF match = <<>>
        THEN /\ out' = [NoOut EXCEPT !.msg = "denied"]
             /\ UNCHANGED <<logged_in, user_email, user_role, app_choice,
                            name_email_filter, status_filter, pos_set, record_pos,
                            sheet1, sheet2, page>>
        ELSE \E c \in {Cycle(1, match[1].role, email, <<>>, sAll, pos_set, record_pos,
                               sheet1, sheet2, page, NoEv)} :
                /\ logged_in' = TRUE
                /\ user_email' = email
                /\ user_role' = match[1].role
                /\ app_choice' = 1
                /\ name_email_filter' = <<>>
                /\ status_filter' = sAll
                /\ pos_set' = c.ps
                /\ record_pos' = c.pos
                /\ sheet1' = c.s1
                /\ sheet2' = c.s2
                /\ page' = c.page
                /\ out' = [c.out EXCEPT !.msg = "granted"]
  /\ UNCHANGED <<commits, peers, wlog>>

\* the sidebar radio: the widgets of the app left behind lose their state
SwitchApp ==
  /\ logged_in
  /\ Apply(3 - app_choice, <<>>, sAll, NoEv)
  /\ UNCHANGED commits

FiltersShown == logged_in /\ page.kind \in {"record", "nomatch"}

ChangeQuery(raw) ==
  /\ FiltersShown
  /\ Apply(app_choice, Lower(Strip(raw)), status_filter, NoEv)
  /\ UNCHANGED commits

ChangeStatus(opt) ==
  /\ FiltersShown
  /\ app_choice = 1
  /\ Apply(app_choice, name_email_filter, opt, NoEv)
  /\ UNCHANGED commits

SelectRecord(i) ==
  /\ logged_in
  /\ page.kind = "record"
  /\ i \in 0..(Len(page.opts) - 1)
  /\ Apply(app_choice, name_email_filter, status_filter, [NoEv EXCEPT !.type = "select", !.sel = i])
  /\ UNCHANGED commits

ClickPrev ==
  /\ logged_in
  /\ page.kind = "record"
  /\ IF PrevDisabled(record_pos)
     THEN UNCHANGED vars
     ELSE /\ Apply(app_choice, name_email_filter, status_filter, [NoEv EXCEPT !.type = "prev"])
          /\ UNCHANGED commits

ClickNext ==
  /\ logged_in
  /\ page.kind = "record"
  /\ IF NextDisabled(record_pos, Len(page.opts))
     THEN UNCHANGED vars
     ELSE /\ Apply(app_choice, name_email_filter, status_filter, [NoEv EXCEPT !.type = "next"])
          /\ UNCHANGED commits

\* the drafts the user can have on the screen for the row shown
Drafts1(cells) ==
  [app : {1}, accepted : {AcceptedOptions[i] : i \in 1..Len(AcceptedOptions)},
   comments : CommentInputs \cup {cells.R}]

Drafts2(cells) ==
  [app : {2},
   vcl_issued : DateInputs \cup {safe_date(cells.AI)},
   vcl_start : DateInputs \cup {safe_date(cells.AJ)},
   vcl_end : DateInputs \cup {safe_date(cells.AK)},
   vel_issued : DateInputs \cup {safe_date(cells.AL)},
   final_status : FinalStatusInputs \cup {cells.AN}]

DraftsOnScreen ==
  IF page.kind # "record" THEN {}
  ELSE IF page.draft # NoDraft THEN {page.draft}
  ELSE IF page.app = 1 THEN Drafts1(sheet1[page.row])
  ELSE Drafts2(sheet2[page.row])

\* the sheet.update call of a submit that raises (0: none)
FailPoints == 0..5

Submit(d, k) ==
  /\ logged_in
  /\ page.kind = "record"
  /\ page.canSubmit
  /\ commits < MaxCommits
  /\ d \in DraftsOnScreen
  /\ k \in FailPoints
  /\ k <= Len(IF page.app = 1 THEN Writes1(page.row, d, user_email, Today)
              ELSE Writes2(page.row, d))
  /\ Apply(app_choice, name_email_filter, status_filter,
           [NoEv EXCEPT !.type = "submit", !.draft = d, !.failAt = k])
  /\ commits' = commits + 1

ClickSubmit == \E d \in DraftsOnScreen : \E k \in FailPoints : Submit(d, k)

\* any other interaction (typing into a draft widget): a run with no button
Refresh ==
  /\ logged_in
  /\ Apply(app_choice, name_email_filter, status_filter, NoEv)
  /\ UNCHANGED commits

Next ==
  \/ \E raw \in EmailInputs : Login(raw)
  \/ SwitchApp
  \/ \E raw \in QueryInputs : ChangeQuery(raw)
  \/ \E opt \in StatusInputs : ChangeStatus(opt)
  \/ \E i \in 0..3 : SelectRecord(i)
  \/ ClickPrev
  \/ ClickNext
  \/ ClickSubmit
  \/ Refresh

Spec == Init /\ [][Next]_vars

----------------------------------------------------------------------------
\* Two sessions: runs and cell writes interleave

\* what the single-session variables keep in the two-session specification
SoloVars == <<logged_in, user_email, user_role, app_choice, name_email_filter,
              status_filter, record_pos, sheet2, page, out, commits, pos_set>>

\* a session shows the record at position i of the unfiltered view
Open(s, i) ==
  /\ peers[s].pc = "idle"
  /\ \E r \in {PeerRun(s, sheet1, i, LoginPage, NoEv)} :
        peers' = [peers EXCEPT ![s] = [IdlePeer EXCEPT !.pc = "viewing",
                                                       !.pos = r.pos,
                                                       !.page = r.page]]
  /\ UNCHANGED <<sheet1, wlog, SoloVars>>

\* the click on submit: the run loads the sheet, renders the button from the
\* status it loaded and, in the handler, is about to issue its cell writes
Click(s, d) ==
  /\ peers[s].pc = "viewing"
  /\ peers[s].page.canSubmit
  /\ \E r \in {PeerRun(s, sheet1, peers[s].pos, peers[s].page,
                        [NoEv EXCEPT !.type = "submit", !.draft = d])} :
        peers' = [peers EXCEPT ![s] = [pc |-> IF r.writes = <<>> THEN "done" ELSE "writing",
                                       pos |-> peers[s].pos,
                                       page |-> r.page,
                                       draft |-> d,
                                       plan |-> r.writes,
                                       queue |-> r.writes]]
  /\ UNCHANGED <<sheet1, wlog, SoloVars>>

\* the next sheet.update call of a session's submit handler reaches the sheet
Write(s) ==
  /\ peers[s].pc = "writing"
  /\ sheet1' = ApplyWrites(sheet1, <<Head(peers[s].queue)>>)
  /\ wlog' = Append(wlog, [s |-> s, w |-> Head(peers[s].queue)])
  /\ peers' = [peers EXCEPT ![s].queue = Tail(peers[s].queue),
                             ![s].pc = IF Len(peers[s].queue) = 1 THEN "done" ELSE "writing"]
  /\ UNCHANGED SoloVars

NextConc ==
  \/ \E s \in Sessions : \E i \in 0..2 : Open(s, i)
  \/ \E s \in Sessions : \E d \in PeerDrafts(s) : Click(s, d)
  \/ \E s \in Sessions : Write(s)

SpecConc == Init /\ [][NextConc]_vars

----------------------------------------------------------------------------
\* Properties

\* a step that ran the submit handler
IsCommit == commits' = commits + 1

\* C1: whenever a run reaches the record section (the filtered view is
\* non-empty), the position that indexes the filtered view to find the
\* displayed record satisfies 0 <= position < len(filtered view).
C1_CursorInRange ==
  page.kind = "record" => (0 <= page.used /\ page.used < Len(page.opts))

\* C2: every cell write of a commit addresses the sheet row of the record
\* the committing run shows: its load-time index + 2 in Pending-Triage,
\* + 4 in OPT-SVC, whatever the filter and the position in the view.
C2_WritesAddressOrigin ==
  \A i \in 1..Len(out.writes) :
     /\ out.rec >= 0
     /\ out.writes[i].row = out.rec + (IF out.writes[i].ds = 1 THEN 2 ELSE 4)

\* under a text filter a commit wrote cells of a dataset-1 record whose
\* position in the view differs from its load-time index
C2_Witness ==
  /\ out.writes # <<>>
  /\ out.vpos # out.rec
  /\ out.writes[1].ds = 1
  /\ name_email_filter # <<>>

\* the columns a dataset-1 commit with status st stamps besides R and S
TrailCols(st) ==
  LET ws == Writes1(0, [app |-> 1, accepted |-> st, comments |-> <<>>], <<>>, Today)
  IN {ws[i].col : i \in 1..Len(ws)} \ {"R", "S"}

\* a step that saved a dataset-1 commit with status y, n or maybe
SavedDecision ==
  /\ IsCommit
  /\ out'.msg = "saved"
  /\ out'.draft.app = 1
  /\ out'.draft.accepted \in {sY, sN, sMaybe}

\* C3 as stated: a saved dataset-1 commit with status y, n or maybe writes no
\* column of the trail of either other status (the three trails are disjoint).
C3_TrailsDisjoint ==
  (out.msg = "saved" /\ out.draft.app = 1 /\ out.draft.accepted \in {sY, sN, sMaybe})
  => \A st \in {sY, sN, sMaybe} \ {out.draft.accepted} :
        \A i \in 1..Len(out.writes) : out.writes[i].col \notin TrailCols(st)

\* C3 amended: a saved dataset-1 commit with status y, n or maybe writes the
\* comments cell R, the status cell S and one actor/date pair: actor T and
\* date U for y and also for maybe, date W and actor X for n; the columns of
\* the other pair and all other rows are left unchanged.
C3_TrailPairWritten ==
  [][SavedDecision =>
       LET d == out'.draft
           row == out'.rec + 2
           pair == IF d.accepted = sN THEN {"W", "X"} ELSE {"T", "U"}
       IN /\ {out'.writes[i].col : i \in 1..Len(out'.writes)} = {"R", "S"} \cup pair
          /\ sheet1'[row].R = d.comments
          /\ sheet1'[row].S = d.accepted
          /\ IF d.accepted = sN
             THEN sheet1'[row].W = StrfYmd(Today) /\ sheet1'[row].X = user_email
             ELSE sheet1'[row].T = user_email /\ sheet1'[row].U = StrfYmd(Today)
          /\ \A c \in {"T", "U", "W", "X"} \ pair : sheet1'[row][c] = sheet1[row][c]
          /\ \A r \in DOMAIN sheet1 \ {row} : sheet1'[r] = sheet1[r]
          /\ sheet2' = sheet2]_vars

\* a commit with status maybe was saved: it stamped the same pair as y
C3_Witness ==
  /\ out.msg = "saved"
  /\ out.draft.app = 1
  /\ out.draft.accepted = sMaybe
  /\ sheet1[out.rec + 2].T = user_email

\* a step whose submit handler raised at one of its cell writes
FailedCommit == IsCommit /\ out'.msg = "failed"

\* the cell writes the failed handler would have issued, in program order
PlannedWrites ==
  IF out'.draft.app = 1
  THEN Writes1(out'.rec + 2, out'.draft, user_email, Today)
  ELSE Writes2(out'.rec + 4, out'.draft)

\* the value of a cell of either sheet
Cell(s1, s2, ds, row, col) == IF ds = 1 THEN s1[row][col] ELSE s2[row][col]

\* C4 as stated: after a commit whose cell write failed, the cursor position
\* and every stored cell are the same as before the commit started.
C4_FailureLeavesStore ==
  [][FailedCommit =>
       /\ sheet1' = sheet1
       /\ sheet2' = sheet2
       /\ record_pos' = record_pos]_vars

\* C4 amended: after a commit whose k-th cell write failed the failure is
\* reported, the cursor is not advanced (it stays on the record the commit
\* addressed), the failing write and the writes after it are not applied,
\* and every cell not addressed by the first k-1 writes is unchanged; the
\* cells of the first k-1 writes keep their new values.
C4_FailureKeepsCursor ==
  [][FailedCommit =>
       \E ws \in {PlannedWrites} : \E k \in {out'.failed} :
       \E done \in {{<<ws[i].row, ws[i].col>> : i \in 1..(k - 1)}} :
          /\ k \in 1..Len(ws)
          /\ record_pos' = out'.vpos
          /\ page'.row = ws[k].row
          /\ (page.draft = NoDraft => record_pos' = record_pos)
          /\ \A i \in k..Len(ws) :
                <<ws[i].row, ws[i].col>> \notin done
                => Cell(sheet1', sheet2', ws[i].ds, ws[i].row, ws[i].col)
                   = Cell(sheet1, sheet2, ws[i].ds, ws[i].row, ws[i].col)
          /\ \A i \in 1..(k - 1) :
                Cell(sheet1', sheet2', ws[i].ds, ws[i].row, ws[i].col) = ws[i].val
          /\ \A r \in DOMAIN sheet1 : \A c \in DOMAIN sheet1[r] :
                (<<r, c>> \notin done \/ ws[1].ds # 1) => sheet1'[r][c] = sheet1[r][c]
          /\ \A r \in DOMAIN sheet2 : \A c \in DOMAIN sheet2[r] :
                (<<r, c>> \notin done \/ ws[1].ds # 2) => sheet2'[r][c] = sheet2[r][c]]_vars

\* a commit failed after at least one of its writes changed a cell
C4_Witness ==
  /\ out.msg = "failed"
  /\ out.failed >= 2
  /\ (sheet1 # InitSheet1 \/ sheet2 # InitSheet2)

\* C5: when the status loaded for the dataset-1 record on the screen is,
\* trimmed and lower-cased, "y" or "n", the submit button is not rendered for
\* any role, and no commit writes a cell of a row whose status is "y" or "n".
C5_DecidedRowReadOnly ==
  [][/\ (page'.kind = "record" /\ page'.app = 1
          /\ Lower(Strip(page'.status)) \in {sY, sN}) => ~page'.canSubmit
     /\ (IsCommit /\ app_choice = 1 /\ out'.writes # <<>>)
          => Lower(Strip(sheet1[out'.writes[1].row].S)) \notin {sY, sN}]_vars

\* an Admin looks at the dataset-1 record whose stored status is " Y"
C5_Witness ==
  /\ page.kind = "record"
  /\ page.app = 1
  /\ user_role = "Admin"
  /\ page.status = <<" ", "Y">>
  /\ ~page.canSubmit

\* C6: dataset-2 cells are written and the dataset-2 submit is rendered only
\* for Admin; the dataset-2 record is shown only to HRS, Admin, Editor,
\* Viewer, FM; the dataset-1 record is shown and written only for FM, Admin,
\* Editor; any other role gets the no-access page and issues no write.
C6_RoleCapability ==
  /\ \A i \in 1..Len(out.writes) :
        /\ out.writes[i].ds = 2 => user_role = "Admin"
        /\ out.writes[i].ds = 1 => user_role \in {"FM", "Admin", "Editor"}
  /\ (page.kind = "record" /\ page.app = 2)
        => /\ user_role \in {"HRS", "Admin", "Editor", "Viewer", "FM"}
           /\ page.canSubmit => user_role = "Admin"
  /\ (page.kind = "record" /\ page.app = 1) => user_role \in {"FM", "Admin", "Editor"}
  /\ (logged_in /\ app_choice = 2 /\ user_role \notin {"HRS", "Admin", "Editor", "Viewer", "FM"})
        => page.kind = "noaccess" /\ out.writes = <<>>
  /\ (logged_in /\ app_choice = 1 /\ user_role \notin {"FM", "Admin", "Editor"})
        => page.kind = "noaccess" /\ out.writes = <<>>

\* an Editor sees a dataset-2 record without the submit button
C6_Witness ==
  /\ user_role = "Editor"
  /\ page.kind = "record"
  /\ page.app = 2
  /\ ~page.canSubmit

\* the date widgets of dataset 2 and the columns they are written to
DateFields == { <<"vcl_issued", "AI">>, <<"vcl_start", "AJ">>,
                <<"vcl_end", "AK">>, <<"vel_issued", "AL">> }

\* C7: a dataset-2 commit writes each of the four date cells and the status
\* cell only when its draft value is non-empty: a blank draft value leaves
\* the stored cell as it was, a saved commit stores every non-blank value,
\* and the cells written are exactly those with a non-blank draft value.
C7_BlankKeepsStored ==
  [][(IsCommit /\ out'.draft.app = 2) =>
       LET d == out'.draft
           row == out'.rec + 4
           filled == {f[2] : f \in {g \in DateFields : d[g[1]] # NoDate}}
                     \cup (IF d.final_status # <<>> THEN {"AN"} ELSE {})
       IN /\ \A f \in DateFields :
                /\ d[f[1]] = NoDate => sheet2'[row][f[2]] = sheet2[row][f[2]]
                /\ (d[f[1]] # NoDate /\ out'.msg = "saved")
                      => sheet2'[row][f[2]] = StrfMdy(d[f[1]])
          /\ d.final_status = <<>> => sheet2'[row].AN = sheet2[row].AN
          /\ (d.final_status # <<>> /\ out'.msg = "saved") => sheet2'[row].AN = d.final_status
          /\ out'.msg = "saved"
                => {out'.writes[i].col : i \in 1..Len(out'.writes)} = filled
          /\ {out'.writes[i].col : i \in 1..Len(out'.writes)} \subseteq filled
          /\ \A r \in DOMAIN sheet2 \ {row} : sheet2'[r] = sheet2[r]
          /\ sheet1' = sheet1]_vars

\* a saved commit whose draft had only VCL start filled, on a row whose
\* status cell holds a value: one write, to AJ
C7_Witness ==
  /\ out.msg = "saved"
  /\ out.draft.app = 2
  /\ out.draft.vcl_start # NoDate
  /\ out.draft.vcl_issued = NoDate /\ out.draft.vcl_end = NoDate
  /\ out.draft.vel_issued = NoDate /\ out.draft.final_status = <<>>
  /\ Len(out.writes) = 1
  /\ out.writes[1].col = "AJ"
  /\ sheet2[out.rec + 4].AN # <<>>

\* the typed email, normalised and non-empty, equals no normalised email of
\* the permission sheet
NoExactMatch(raw) ==
  /\ Lower(Strip(raw)) # <<>>
  /\ \A i \in 1..Len(PermissionRows) :
        Strip(Lower(PermissionRows[i].email)) # Lower(Strip(raw))

\* the emails the user may type that match no permission row
UnmatchedInputs == {raw \in EmailInputs : NoExactMatch(raw)}

\* C8: a login with an email that matches no permission row is denied and
\* leaves the session unauthenticated (no email, no role, logged_in false);
\* while unauthenticated only the login page is shown: no dataset is loaded
\* and no cell is written.
C8_UnknownEmailDenied ==
  [][/\ ~logged_in =>
          \A raw \in UnmatchedInputs :
             Login(raw) => /\ out'.msg = "denied"
                           /\ ~logged_in' /\ user_email' = <<>> /\ user_role' = ""
     /\ ~logged_in'
          => /\ page'.kind = "login"
             /\ user_email' = <<>> /\ user_role' = ""
             /\ sheet1' = sheet1 /\ sheet2' = sheet2
             /\ out'.writes = <<>>]_vars

\* a login was denied and the session is still unauthenticated
C8_Witness ==
  /\ out.msg = "denied"
  /\ ~logged_in
  /\ page.kind = "login"

\* the role of the first permission row whose normalised email is the given one
FirstRoleFor(email) ==
  LET hits == {i \in 1..Len(PermissionRows) : Strip(Lower(PermissionRows[i].email)) = email}
  IN PermissionRows[CHOOSE i \in hits : \A j \in hits : i <= j].role

\* C9 as stated: in every authenticated session the stored role is one of
\* FM, Admin, Editor, HRS, Viewer, Unknown.
C9_RoleKnown == logged_in => user_role \in KnownRoles

\* C9 amended: in every authenticated session the stored role is the role
\* string of the first permission row matching the session's email, whatever
\* that string is; a session whose role is none of FM, Admin, Editor, HRS,
\* Viewer is authenticated but is shown the no-access page in either app and
\* writes nothing.
C9_RoleFromTable ==
  logged_in =>
    /\ user_role = FirstRoleFor(user_email)
    /\ user_role \notin {"FM", "Admin", "Editor", "HRS", "Viewer"}
         => page.kind = "noaccess" /\ out.writes = <<>>
              /\ sheet1 = InitSheet1 /\ sheet2 = InitSheet2

\* the email of the permission row with role "Guest" is logged in and has
\* switched to the second app
C9_Witness ==
  /\ logged_in
  /\ user_role = "Guest"
  /\ app_choice = 2
  /\ page.kind = "noaccess"

\* C10: a click on the previous button while the cursor is at position 0,
\* or on the next button while it is at the last position of the view on the
\* screen, changes nothing and reports no error.
C10_BoundaryNoOp ==
  [][/\ (record_pos = 0 /\ ClickPrev)
          => record_pos' = record_pos /\ page' = page /\ out'.msg # "failed"
     /\ (record_pos = Len(page.opts) - 1 /\ ClickNext)
          => record_pos' = record_pos /\ page' = page /\ out'.msg # "failed"]_vars

\* the cursor is at the last position of a view of at least two records in
\* dataset 2, where the next button is disabled and previous is not
C10_Witness ==
  /\ page.kind = "record"
  /\ page.app = 2
  /\ Len(page.opts) >= 2
  /\ record_pos = Len(page.opts) - 1
  /\ NextDisabled(record_pos, Len(page.opts))

\* the filtered view a run of app computes from the two sheets
ViewWith(app, q, sf, s1, s2) ==
  IF app = 1 THEN Filter1(Load1(s1), q, sf) ELSE Filter2(Load2(s2), q)

\* the same under the filters of the state
ViewOf(s1, s2) == ViewWith(app_choice, name_email_filter, status_filter, s1, s2)

\* C11: after a saved commit made at position p the run that follows shows
\* the view recomputed from the store as the commit left it, at position
\* p + 1 when p + 1 is below the length of that view and at position 0
\* otherwise; when that view is empty the no-match page is shown.
C11_CommitAdvances ==
  [][(IsCommit /\ out'.msg = "saved") =>
       \E p \in {out'.vpos} : \E view \in {ViewOf(sheet1', sheet2')} :
          IF view = <<>>
          THEN page'.kind = "nomatch" /\ record_pos' = p + 1
          ELSE /\ page'.kind = "record"
               /\ page'.opts = IndexOf(view)
               /\ page'.used = (IF p + 1 < Len(view) THEN p + 1 ELSE 0)
               /\ record_pos' = page'.used
               /\ page'.row = view[page'.used + 1].RowNumber]_vars

\* a commit on the last record of a view of at least two records was saved
\* and the first record is shown
C11_Witness ==
  /\ out.msg = "saved"
  /\ out.vpos >= 1
  /\ page.kind = "record"
  /\ Len(page.opts) = out.vpos + 1
  /\ record_pos = 0

\* the page on the screen was computed from the sheets as they are now
FreshPage == logged_in /\ page.kind \in {"record", "nomatch"} /\ out.msg # "failed"

\* v is a subsequence of df in df's order: the load-time indices of v grow
\* strictly and each row of v is the row of df with that index
IsOrderedPart(v, df) ==
  /\ \A i \in 1..Len(v) : v[i].idx + 1 \in 1..Len(df) /\ v[i] = df[v[i].idx + 1]
  /\ \A i \in 1..(Len(v) - 1) : v[i].idx < v[i + 1].idx

\* C12: for the sheets of every reachable state, the text query of the state
\* and every status option, the filtered view is a subsequence of the loaded
\* dataset in its row order, and filtering the view again with the same
\* query gives the same view; the view on a fresh page is that view.
C12_FilterSubsequenceIdempotent ==
  /\ \A sf \in {StatusOptions[i] : i \in 1..Len(StatusOptions)} :
        \E df \in {Load1(sheet1)} : \E v \in {Filter1(df, name_email_filter, sf)} :
           /\ IsOrderedPart(v, df)
           /\ Filter1(v, name_email_filter, sf) = v
  /\ \E df \in {Load2(sheet2)} : \E v \in {Filter2(df, name_email_filter)} :
        /\ IsOrderedPart(v, df)
        /\ Filter2(v, name_email_filter) = v
  /\ FreshPage => page.opts = IndexOf(ViewOf(sheet1, sheet2))

\* the status filter shows the first and the third row of dataset 1
C12_Witness ==
  /\ page.kind = "record"
  /\ page.app = 1
  /\ status_filter = sJMPending
  /\ page.opts = <<0, 2>>

\* q occurs in s as a substring
IsSubstring(q, s) ==
  \E i \in 0..(Len(s) - Len(q)) : SubSeq(s, i + 1, i + Len(q)) = q

\* the rows the filter is stated to keep
Kept(cells, app, q, sf) ==
  /\ q = <<>> \/ IsSubstring(q, Lower(cells.name)) \/ IsSubstring(q, Lower(cells.email))
  /\ app = 2 \/ sf = sAll \/ Lower(cells.S) = Lower(sf)

\* the load-time indices of the rows the filter is stated to keep, in order
KeptIndices(sheet, first, app, q, sf) ==
  SelectSeq([i \in 1..Cardinality(DOMAIN sheet) |-> i - 1],
            LAMBDA i : Kept(sheet[first + i], app, q, sf))

\* C13: the filtered view on a fresh page holds exactly the rows whose
\* lower-cased name or email contains the text query as a substring (or the
\* query is empty) and, in dataset 1, whose status equals the status query
\* ignoring case (or the status query is "All").
C13_ViewIsSubstringFilter ==
  FreshPage =>
    page.opts = (IF app_choice = 1
                 THEN KeptIndices(sheet1, FirstDataRow1, 1, name_email_filter, status_filter)
                 ELSE KeptIndices(sheet2, FirstDataRow2, 2, name_email_filter, status_filter))

\* a step in which one of the two filter widgets of the shown app changed
FilterChange ==
  /\ logged_in
  /\ app_choice' = app_choice
  /\ name_email_filter' # name_email_filter \/ status_filter' # status_filter

\* C14: a filter change that leaves a non-empty view keeps the stored
\* position p when p is below the length of the new view and sets it to 0
\* only when p is at or beyond that length; the record shown is the one at
\* that position of the new view.
C14_FilterKeepsCursor ==
  [][FilterChange =>
       \E view \in {ViewWith(app_choice, name_email_filter', status_filter',
                              sheet1, sheet2)} :
          IF view = <<>> THEN page'.kind = "nomatch"
          ELSE /\ page'.kind = "record"
               /\ page'.opts = IndexOf(view)
               /\ record_pos' = (IF record_pos < Len(view) THEN record_pos ELSE 0)
               /\ page'.used = record_pos'
               /\ page'.row = view[record_pos' + 1].RowNumber]_vars

\* under a text query that keeps two records the second one is shown
C14_Witness ==
  /\ page.kind = "record"
  /\ name_email_filter = <<"b">>
  /\ Len(page.opts) = 2
  /\ record_pos = 1
  /\ page.used = 1

\* a step whose dataset-1 submit handler got past its first cell write
Commit1PastFirst ==
  /\ IsCommit
  /\ out'.draft.app = 1
  /\ out'.msg = "saved" \/ out'.failed >= 2

\* C15: a dataset-1 commit writes the comments cell first and in every
\* case; it writes the status cell only when the draft status is y, n or
\* maybe.  A saved commit whose draft status is the empty choice issues the
\* one write to the comments cell and leaves the status cell, the four
\* trail cells and every other row as they were.
C15_EmptyStatusWritesComments ==
  [][Commit1PastFirst =>
       \E d \in {out'.draft} : \E row \in {out'.rec + 2} :
       \E cols \in {{out'.writes[i].col : i \in 1..Len(out'.writes)}} :
          /\ out'.writes[1] = CellWrite(1, "R", row, d.comments)
          /\ sheet1'[row].R = d.comments
          /\ "S" \in cols => d.accepted \in {sY, sN, sMaybe}
          /\ (out'.msg = "saved" /\ d.accepted \in {sY, sN, sMaybe})
                => "S" \in cols /\ sheet1'[row].S = d.accepted
          /\ d.accepted \notin {sY, sN, sMaybe}
                => /\ cols = {"R"}
                   /\ Len(out'.writes) = 1
                   /\ \A c \in {"S", "T", "U", "W", "X"} :
                         sheet1'[row][c] = sheet1[row][c]
                   /\ \A r \in DOMAIN sheet1 \ {row} : sheet1'[r] = sheet1[r]]_vars

\* a commit with the empty status choice was saved on a row whose stored
\* status is JM-Pending: the comment is stored, the status is still there
C15_Witness ==
  /\ out.msg = "saved"
  /\ out.draft.app = 1
  /\ out.draft.accepted = sEmpty
  /\ out.draft.comments = <<"o", "k">>
  /\ sheet1[out.rec + 2].R = <<"o", "k">>
  /\ sheet1[out.rec + 2].S = sJMPending

\* C16: a run whose filtered view is empty shows the no-match page and
\* stops: the page has no record, no selectable option and no submit; the
\* run issues no write and leaves the stored position as it was; from the
\* no-match page no previous, next or submit handler runs (the next run
\* that shows a record only clamps the stored position).
C16_NoMatchStops ==
  [][/\ (page'.kind = "nomatch" /\ ~IsCommit)
          => /\ ViewOf(sheet1, sheet2)' = <<>>
             /\ page'.opts = <<>> /\ page'.row = 0 /\ ~page'.canSubmit
             /\ record_pos' = record_pos /\ pos_set' = pos_set
             /\ sheet1' = sheet1 /\ sheet2' = sheet2
             /\ out'.writes = <<>> /\ out'.msg = ""
     /\ page.kind = "nomatch"
          => /\ ~IsCommit
             /\ sheet1' = sheet1 /\ sheet2' = sheet2 /\ out'.writes = <<>>
             /\ page'.kind = "record"
                   => record_pos' = ClampPos(pos_set, record_pos, Len(page'.opts))]_vars

\* the no-match page is shown while the stored position is not 0
C16_Witness ==
  /\ page.kind = "nomatch"
  /\ pos_set
  /\ record_pos >= 1
  /\ out.msg = ""

\* the gestures that are not a submit
OtherGestures == {"none", "select", "prev", "next"}

\* C17: a step that is not a submit changes no cell of either sheet and
\* issues no write; and the draft of every submit would have been dropped
\* without a write had the user, with that draft on the screen, made any
\* other gesture instead (previous, next, a selection, any other run).
C17_OnlySubmitWrites ==
  [][/\ ~IsCommit
          => sheet1' = sheet1 /\ sheet2' = sheet2 /\ out'.writes = <<>>
     /\ IsCommit
          => \A t \in OtherGestures :
                \E c \in {Cycle(app_choice, user_role, user_email, name_email_filter,
                                status_filter, pos_set, record_pos, sheet1, sheet2, page,
                                [type |-> t, sel |-> 0, draft |-> out'.draft, failAt |-> 0])} :
                   c.s1 = sheet1 /\ c.s2 = sheet2 /\ c.out.writes = <<>>]_vars

\* a submit failed at its first write, its draft stayed on the screen
\* uncommitted, and the user then moved away: the store is as it was
C17_Witness ==
  /\ commits >= 1
  /\ page.kind = "record"
  /\ page.canSubmit
  /\ page.draft = NoDraft
  /\ out.msg = ""
  /\ sheet1 = InitSheet1
  /\ sheet2 = InitSheet2

\* the columns of the stated write order that a draft makes the commit write
OrderedCols(d) ==
  IF d.app = 1
  THEN SelectSeq(<<"R", "S">>,
                 LAMBDA c : c = "R" \/ d.accepted \in {sY, sN, sMaybe})
  ELSE SelectSeq(<<"AI", "AJ", "AK", "AL", "AN">>,
                 LAMBDA c : \/ c = "AI" /\ d.vcl_issued # NoDate
                            \/ c = "AJ" /\ d.vcl_start # NoDate
                            \/ c = "AK" /\ d.vcl_end # NoDate
                            \/ c = "AL" /\ d.vel_issued # NoDate
                            \/ c = "AN" /\ d.final_status # <<>>)

\* the trail columns of dataset 1, stamped after comments and status
TrailColumns == {"T", "U", "W", "X"}

\* the first n columns written are the first n of the stated order (in
\* dataset 1 followed by trail columns only)
FollowsOrder(cols, d) ==
  \A i \in 1..Len(cols) :
     IF i <= Len(OrderedCols(d)) THEN cols[i] = OrderedCols(d)[i]
     ELSE d.app = 1 /\ cols[i] \in TrailColumns

\* C20: when the k-th cell write of a commit fails, the writes issued are
\* k-1, they follow the fixed order (dataset 1: comments, status, then the
\* trail pair; dataset 2: VCL issued, VCL start, VCL end, VEL issued,
\* status), the cells that differ from before are among the cells of those
\* k-1 writes and hold the written values, success is not acknowledged and
\* the stored position is the position of the record the commit addressed.
C20_FailedCommitPrefix ==
  [][FailedCommit =>
       \E k \in {out'.failed} : \E ws \in {out'.writes} :
       \E cols \in {[i \in 1..Len(out'.writes) |-> out'.writes[i].col]} :
       \E row \in {out'.rec + (IF out'.draft.app = 1 THEN 2 ELSE 4)} :
          /\ k >= 1
          /\ Len(ws) = k - 1
          /\ FollowsOrder(cols, out'.draft)
          /\ \A i \in 1..Len(ws) :
                /\ ws[i].ds = out'.draft.app
                /\ ws[i].row = row
                /\ \A j \in 1..Len(ws) : ws[i].col = ws[j].col => i = j
                /\ Cell(sheet1', sheet2', ws[i].ds, ws[i].row, ws[i].col) = ws[i].val
          /\ \A r \in DOMAIN sheet1 : \A c \in DOMAIN sheet1[r] :
                sheet1'[r][c] # sheet1[r][c]
                => \E i \in 1..Len(ws) : ws[i] = CellWrite(1, c, r, sheet1'[r][c])
          /\ \A r \in DOMAIN sheet2 : \A c \in DOMAIN sheet2[r] :
                sheet2'[r][c] # sheet2[r][c]
                => \E i \in 1..Len(ws) : ws[i] = CellWrite(2, c, r, sheet2'[r][c])
          /\ out'.msg # "saved"
          /\ record_pos' = out'.vpos
          /\ page'.row = row]_vars

\* a dataset-2 commit failed at its third write after writing two dates
C20_Witness ==
  /\ out.msg = "failed"
  /\ out.draft.app = 2
  /\ out.failed = 3
  /\ Len(out.writes) = 2
  /\ out.writes[1].col = "AI"
  /\ out.writes[2].col = "AJ"

\* both sessions have finished a commit of at least one write on the same row
BothCommitted ==
  /\ \A s \in Sessions : peers[s].pc = "done" /\ peers[s].plan # <<>>
  /\ peers["A"].plan[1].row = peers["B"].plan[1].row

\* the sheet after the commit of x and then the commit of y
Serial(x, y) == ApplyWrites(ApplyWrites(InitSheet1, peers[x].plan), peers[y].plan)

\* C18 as stated: when two sessions have committed on the same dataset-1
\* row, the row's cells equal the result of running the two commits one
\* after the other in one of the two orders.
C18_SerialOutcome ==
  BothCommitted =>
    \E row \in {peers["A"].plan[1].row} :
       \/ sheet1[row] = Serial("A", "B")[row]
       \/ sheet1[row] = Serial("B", "A")[row]

\* the writes of a session that have reached the sheet, in the order they did
Landed(s) ==
  [i \in 1..Len(SelectSeq(wlog, LAMBDA e : e.s = s)) |->
     SelectSeq(wlog, LAMBDA e : e.s = s)[i].w]

\* the cell writes a dataset-1 draft stands for, in the order of the handler
DraftWrites(row, d, email) ==
  <<CellWrite(1, "R", row, d.comments)>>
  \o (IF d.accepted = sEmpty THEN <<>> ELSE <<CellWrite(1, "S", row, d.accepted)>>)
  \o (IF d.accepted = sY
      THEN <<CellWrite(1, "U", row, StrfYmd(Today)), CellWrite(1, "T", row, email)>>
      ELSE IF d.accepted = sN
      THEN <<CellWrite(1, "W", row, StrfYmd(Today)), CellWrite(1, "X", row, email)>>
      ELSE IF d.accepted = sMaybe
      THEN <<CellWrite(1, "T", row, email), CellWrite(1, "U", row, StrfYmd(Today))>>
      ELSE <<>>)

\* the positions of the log that wrote the cell (r, c)
WritesTo(r, c) == {i \in 1..Len(wlog) : wlog[i].w.row = r /\ wlog[i].w.col = c}

\* C18 amended: the cell writes of each session reach the sheet in the
\* order of its handler (comments, status, trail pair), all to the row the
\* session shows, and under every interleaving each cell holds the value of
\* the write that reached it last (its initial value when no write reached
\* it): last write wins per cell, not per commit.
C18_LastWritePerCell ==
  /\ \A s \in Sessions :
        peers[s].pc \in {"writing", "done"} =>
          \E ws \in {Landed(s)} :
             /\ Len(ws) = Len(peers[s].plan) - Len(peers[s].queue)
             /\ peers[s].plan # <<>>
                  => /\ peers[s].plan = DraftWrites(peers[s].page.row, peers[s].draft, PeerEmail[s])
                     /\ ws = SubSeq(peers[s].plan, 1, Len(ws))
  /\ \A r \in DOMAIN sheet1 : \A c \in DOMAIN sheet1[r] :
        \E at \in {WritesTo(r, c)} :
           sheet1[r][c] = IF at = {} THEN InitSheet1[r][c]
                          ELSE wlog[CHOOSE i \in at : \A j \in at : j <= i].w.val

\* both sessions committed on row 2, A with status y and B with status
\* maybe: the stored status is A's, the stored trail actor is B's
C18_Witness ==
  /\ BothCommitted
  /\ peers["A"].draft.accepted = sY
  /\ peers["B"].draft.accepted = sMaybe
  /\ sheet1[2].S = sY
  /\ sheet1[2].T = PeerEmail["B"]

\* the stored status is a decision
Decided(st) == Lower(Strip(st)) \in {sY, sN}

\* the session has not written the status cell of row r so far
NoStatusWriteBy(s, r) ==
  \A i \in 1..Len(wlog) : ~(wlog[i].s = s /\ wlog[i].w.row = r /\ wlog[i].w.col = "S")

\* C19 as stated: once the stored status of a dataset-1 row is y or n, a
\* cell write of a session other than the one whose commit stored the
\* decision changes none of the row's comments, status and trail cells.
C19_DecisionFinal ==
  [][wlog' # wlog =>
       \E e \in {wlog'[Len(wlog')]} :
          (Decided(sheet1[e.w.row].S) /\ NoStatusWriteBy(e.s, e.w.row))
             => sheet1'[e.w.row] = sheet1[e.w.row]]_vars

\* C19 amended: a committing run that loads a dataset-1 row whose stored
\* status is already y or n renders no submit button and issues no cell
\* write; every write that reaches the sheet comes from a run that loaded
\* its row with a status other than y and n (such a run still issues all
\* its writes when the decision is stored after its load).
C19_DecidedAtLoadNoWrite ==
  [][/\ \A s \in Sessions :
          (peers[s].pc = "viewing" /\ peers'[s].pc # "viewing"
             /\ Decided(sheet1[peers[s].page.row].S))
          => /\ peers'[s].plan = <<>>
             /\ peers'[s].pc = "done"
             /\ ~peers'[s].page.canSubmit
     /\ \A s \in Sessions :
          peers'[s].plan # <<>>
          => /\ ~Decided(peers'[s].page.status)
             /\ \A i \in 1..Len(peers'[s].plan) :
                   peers'[s].plan[i].row = peers'[s].page.row
     /\ wlog' # wlog
          => \E e \in {wlog'[Len(wlog')]} :
                /\ e.w = Head(peers[e.s].queue)
                /\ ~Decided(peers[e.s].page.status)]_vars

\* session A stored the decision n on row 2; session B, which had the row
\* on the screen with a submit button, clicked submit afterwards: its run
\* loaded the decided row and wrote nothing
C19_Witness ==
  /\ sheet1[2].S = sN
  /\ sheet1[2].X = PeerEmail["A"]
  /\ peers["B"].pc = "done"
  /\ peers["B"].draft # NoDraft
  /\ peers["B"].page.row = 2
  /\ peers["B"].plan = <<>>

====
